---- MODULE Spec2Model ----
(***************************************************************************)
(* Pipeline-service: the flat-file (JSONL) repository and the HTTP         *)
(* handlers in front of it.                                                *)
(*                                                                         *)
(* The store is the JSONL file, a sequence of text lines.  A line is kept  *)
(* as the value json.loads gives for it (or as "not JSON"); a Python value *)
(* and a JSON value are both a tagged record [t, s, n]:                     *)
(*   t = "null" | "int" | "float" | "str" | "array" | "datetime"           *)
(*   s   the text of a string, as a sequence of tokens: "/" and "-" are    *)
(*       tokens of their own and every other token is a run of characters  *)
(*       holding neither; a timestamp text is the single token that spells *)
(*       its UTC offset ("Z" or "+00:00")                                  *)
(*   n   the number; for a timestamp the instant it names                  *)
(* Every timestamp carries an offset (spec section 3), so two datetimes    *)
(* always compare by instant.                                              *)
(***************************************************************************)
EXTENDS Integers, Sequences, FiniteSets, TLC

VARIABLES store, req, resp, pages, calls, app, fetched, disk, stream, frame, oracle,
          answer

vars == <<store, req, resp, pages, calls, app, fetched, disk, stream, frame, oracle,
         answer>>

(***************************************************************************)
(* Bounds                                                                  *)
(***************************************************************************)
MaxLines == 3        \* lines the file may hold
MaxPreexisting == 1  \* lines already in the file when the service starts
MaxPresent == 2      \* filter criteria supplied together in one request
MaxLimit == 2        \* largest limit a request asks for
MaxOffset == 2       \* largest offset a request asks for

(***************************************************************************)
(* Values                                                                  *)
(***************************************************************************)
JNull == [t |-> "null", s |-> <<>>, n |-> 0]
None == JNull
JInt(n) == [t |-> "int", s |-> <<>>, n |-> n]
JFloat(n) == [t |-> "float", s |-> <<>>, n |-> n]
JStr(s) == [t |-> "str", s |-> s, n |-> 0]
JTime(form, n) == [t |-> "str", s |-> <<form>>, n |-> n]
JArray(len) == [t |-> "array", s |-> <<>>, n |-> len]
Datetime(n) == [t |-> "datetime", s |-> <<>>, n |-> n]

TimeForms == {<<"Z">>, <<"+00:00">>}

\* datetime.isoformat() of an offset-aware UTC datetime
isoformat(v) == JTime("+00:00", v.n)

\* Python truthiness of a value: None, 0, "" and [] are false
Truthy(v) ==
  CASE v.t = "null"  -> FALSE
    [] v.t = "int"   -> v.n # 0
    [] v.t = "float" -> v.n # 0
    [] v.t = "str"   -> v.s # <<>>
    [] v.t = "array" -> v.n # 0
    [] OTHER         -> TRUE

(***************************************************************************)
(* models.py: PipelineInfo                                                 *)
(***************************************************************************)
FieldType ==
  [start_local |-> "datetime", end_local |-> "datetime",
   start_utc |-> "datetime", end_utc |-> "datetime",
   elapsed_seconds |-> "float", elapsed_human |-> "str",
   output_file |-> "str", rowcount |-> "int", log_file |-> "str",
   pid |-> "int", date_code |-> "str",
   pipeline_name |-> "optstr", script_name |-> "optstr",
   pipeline_type |-> "optstr", environment |-> "optstr"]

Fields == DOMAIN FieldType

\* Pydantic (lax mode) validation of one input value against a field type
Accepts(type, v) ==
  CASE type = "datetime" -> (v.t = "str" /\ v.s \in TimeForms) \/ v.t \in {"int", "float", "datetime"}
    [] type = "float"    -> v.t \in {"int", "float"}
    [] type = "int"      -> v.t \in {"int", "float"}
    [] type = "str"      -> v.t = "str"
    [] type = "optstr"   -> v.t \in {"str", "null"}

Coerce(type, v) ==
  CASE type = "datetime" -> Datetime(v.n)
    [] type = "float"    -> JFloat(v.n)
    [] type = "int"      -> JInt(v.n)
    [] OTHER             -> v

\* PipelineInfo(**obj): a missing Optional field defaults to None, a missing
\* required field or a value of the wrong type is a ValidationError, a key
\* that is not a field of the model is ignored.
FieldValid(obj, f) ==
  IF f \in DOMAIN obj THEN Accepts(FieldType[f], obj[f])
  ELSE FieldType[f] = "optstr"

PipelineInfo(obj) ==
  IF \A f \in Fields : FieldValid(obj, f)
  THEN [ok |-> TRUE,
        rec |-> [f \in Fields |->
                   IF f \in DOMAIN obj THEN Coerce(FieldType[f], obj[f]) ELSE None]]
  ELSE [ok |-> FALSE, rec |-> <<>>]

\* Serialize with the fields that are None left out of the line
SerializeOmitsNone(rec) ==
  [f \in {g \in DOMAIN rec : rec[g] # [t |-> "null", s |-> <<>>, n |-> 0]} |->
     IF rec[f].t = "datetime" THEN isoformat(rec[f]) ELSE rec[f]]

\* record.model_dump() followed by the isoformat loop and json.dumps
Serialize(rec) ==
  [f \in DOMAIN rec |-> IF rec[f].t = "datetime" THEN isoformat(rec[f]) ELSE rec[f]]

(***************************************************************************)
(* The lines of the file.  kind "blank" is an empty line, "text" is text   *)
(* json.loads rejects, "scalar" is JSON that is not an object (val is the  *)
(* value), "object" is a JSON object (val maps its keys to values).        *)
(***************************************************************************)
BlankLine == [kind |-> "blank", val |-> <<>>]
TextLine == [kind |-> "text", val |-> <<>>]
ScalarLine(v) == [kind |-> "scalar", val |-> v]
ObjectLine(obj) == [kind |-> "object", val |-> obj]

\* dict.get(key, '')
Get(obj, key) == IF key \in DOMAIN obj THEN obj[key] ELSE JStr(<<>>)

\* needle in haystack, for two token sequences
Contains(hay, needle) ==
  \E i \in 0..(Len(hay) - Len(needle)) :
    \A j \in 1..Len(needle) : hay[i + j] = needle[j]

StartsWith(str, prefix) ==
  Len(str) >= Len(prefix) /\ SubSeq(str, 1, Len(prefix)) = prefix

\* str.split('/'): a segment starts at position 0 or after a "/" token and
\* runs up to the next "/" token or the end of the string
Slashes(str) == {i \in 1..Len(str) : str[i] = "/"}
SegmentEnd(str, i) ==
  IF \E j \in Slashes(str) : j > i
  THEN (CHOOSE j \in Slashes(str) : j > i /\ \A k \in Slashes(str) : k > i => j <= k) - 1
  ELSE Len(str)
SegmentAfter(str, i) == SubSeq(str, i + 1, SegmentEnd(str, i))

\* the segments at which the loop of lines 66-70 returns the next segment
PipelineCandidates(str) ==
  {i \in {0} \cup Slashes(str) :
     /\ SegmentAfter(str, i) = <<"pipeline">>
     /\ SegmentEnd(str, i) < Len(str)
     /\ ~StartsWith(SegmentAfter(str, SegmentEnd(str, i) + 1), <<"output", "-">>)}

\* the last segment of a string
LastSegment(str) ==
  IF Slashes(str) = {} THEN str
  ELSE SubSeq(str, (CHOOSE i \in Slashes(str) : \A k \in Slashes(str) : k <= i) + 1,
              Len(str))

\* str.split('-')[0] of a string that holds a "-"
BeforeHyphen(str) ==
  SubSeq(str, 1, (CHOOSE i \in 1..Len(str) :
                    str[i] = "-" /\ \A k \in 1..(i - 1) : str[k] # "-") - 1)

\* the segment after the first "pipeline" segment the loop accepts
NextPart(str, cands) ==
  SegmentAfter(str, SegmentEnd(str, CHOOSE i \in cands : \A k \in cands : i <= k) + 1)

\* "x in value" raises TypeError when value is a number; the test is only
\* reached when value is truthy
InRaises(v) == Truthy(v) /\ v.t \in {"int", "float"}

\* lines 72-79
InferFromLog(log_file, filename) ==
  IF InRaises(log_file) THEN [raised |-> TRUE, value |-> None]
  ELSE IF /\ log_file.t = "str"
          /\ Contains(log_file.s, <<"/", "logs", "/">>)
          /\ Contains(filename, <<"-">>)
  THEN [raised |-> FALSE, value |-> JStr(BeforeHyphen(filename))]
  ELSE [raised |-> FALSE, value |-> JStr(<<"unknown">>)]

\* lines 62-70, then the rest
InferFrom(output_file, cands, log_file) ==
  IF InRaises(output_file) THEN [raised |-> TRUE, value |-> None]
  ELSE IF /\ output_file.t = "str"
          /\ Contains(output_file.s, <<"/", "pipeline", "/">>)
          /\ cands # {}
  THEN [raised |-> FALSE, value |-> JStr(NextPart(output_file.s, cands))]
  ELSE InferFromLog(log_file, LastSegment(log_file.s))

\* _infer_pipeline_name: [raised, value]
_infer_pipeline_name(record_data) ==
  InferFrom(Get(record_data, "output_file"),
            PipelineCandidates(Get(record_data, "output_file").s),
            Get(record_data, "log_file"))

With(obj, key, v) == [k \in (DOMAIN obj) \cup {key} |-> IF k = key THEN v ELSE obj[k]]
Without(obj, keys) == [k \in (DOMAIN obj) \ keys |-> obj[k]]

Skipped == [tag |-> "skip", rec |-> <<>>]
Raised == [tag |-> "raise", rec |-> <<>>]

\* line 51, and the except clause for the ValidationError (a ValueError)
Validated(model) == IF model.ok THEN [tag |-> "rec", rec |-> model.rec] ELSE Skipped

\* lines 48-51 for a dict: a TypeError out of _infer_pipeline_name is not
\* caught
ParseObject(obj, inferred) ==
  IF "pipeline_name" \in DOMAIN obj THEN Validated(PipelineInfo(obj))
  ELSE IF inferred.raised THEN Raised
  ELSE Validated(PipelineInfo(With(obj, "pipeline_name", inferred.value)))

\* One pass of the loop body of _read_all, lines 42-54:
\*   "skip"  the line is blank, is not JSON, or fails validation
\*   "rec"   the line yields a record
\*   "raise" an exception other than JSONDecodeError and ValueError escapes:
\*           for JSON that is not an object, TypeError or AttributeError from
\*           line 48 or from record_data.get
ParseLine(line) ==
  CASE line.kind = "blank" -> Skipped
    [] line.kind = "text" -> Skipped
    [] line.kind = "scalar" -> Raised
    [] line.kind = "object" -> ParseObject(line.val, _infer_pipeline_name(line.val))

\* the loop: the first line that raises ends the read
ReadStep(parsed, rest) ==
  IF parsed.tag = "raise" \/ rest.raised THEN [raised |-> TRUE, data |-> <<>>]
  ELSE IF parsed.tag = "rec" THEN [raised |-> FALSE, data |-> <<parsed.rec>> \o rest.data]
  ELSE rest

RECURSIVE ReadLines(_)
ReadLines(lines) ==
  IF lines = <<>> THEN [raised |-> FALSE, data |-> <<>>]
  ELSE ReadStep(ParseLine(Head(lines)), ReadLines(Tail(lines)))

\* open(self.filepath, 'w'): the file truncated
open_w(file) == [file EXCEPT !.lines = <<>>]

\* open(self.filepath, 'r', encoding='utf-8') read to its end and closed,
\* line 39: the file as it is afterwards
open_r(file) == file

\* the file after _read_all: it is opened only when it exists, lines 36-39
_read_all_file(file) == IF ~file.exists THEN file ELSE open_r(file)

\* JsonlPipelineRepository._read_all: [raised, data]
_read_all(file) ==
  IF ~file.exists THEN [raised |-> FALSE, data |-> <<>>] ELSE ReadLines(file.lines)

(***************************************************************************)
(* repository.py: the flat-file query, count and insert                    *)
(***************************************************************************)
Criteria == {"start_utc", "end_utc", "min_rowcount", "max_rowcount",
             "pipeline_name", "script_name", "pipeline_type", "environment"}

\* Matches with a string criterion taking part whenever it is supplied
MatchesEmptySupplied(rec, F) ==
  /\ (~Truthy(F.start_utc) \/ rec.start_utc.n >= F.start_utc.n)
  /\ (~Truthy(F.end_utc) \/ rec.end_utc.n <= F.end_utc.n)
  /\ (F.min_rowcount = None \/ rec.rowcount.n >= F.min_rowcount.n)
  /\ (F.max_rowcount = None \/ rec.rowcount.n <= F.max_rowcount.n)
  /\ (F.pipeline_name = None \/ rec.pipeline_name = F.pipeline_name)
  /\ (F.script_name = None \/ rec.script_name = F.script_name)
  /\ (F.pipeline_type = None \/ rec.pipeline_type = F.pipeline_type)
  /\ (F.environment = None \/ rec.environment = F.environment)

\* Matches with the start bound exclusive
MatchesStartExclusive(rec, F) ==
  /\ (~Truthy(F.start_utc) \/ rec.start_utc.n > F.start_utc.n)
  /\ (~Truthy(F.end_utc) \/ rec.end_utc.n <= F.end_utc.n)
  /\ (F.min_rowcount = None \/ rec.rowcount.n >= F.min_rowcount.n)
  /\ (F.max_rowcount = None \/ rec.rowcount.n <= F.max_rowcount.n)
  /\ (~Truthy(F.pipeline_name) \/ rec.pipeline_name = F.pipeline_name)
  /\ (~Truthy(F.script_name) \/ rec.script_name = F.script_name)
  /\ (~Truthy(F.pipeline_type) \/ rec.pipeline_type = F.pipeline_type)
  /\ (~Truthy(F.environment) \/ rec.environment = F.environment)

\* _apply_filters, lines 83-93: the test one record has to pass
Matches(rec, F) ==
  /\ (~Truthy(F.start_utc) \/ rec.start_utc.n >= F.start_utc.n)
  /\ (~Truthy(F.end_utc) \/ rec.end_utc.n <= F.end_utc.n)
  /\ (F.min_rowcount = None \/ rec.rowcount.n >= F.min_rowcount.n)
  /\ (F.max_rowcount = None \/ rec.rowcount.n <= F.max_rowcount.n)
  /\ (~Truthy(F.pipeline_name) \/ rec.pipeline_name = F.pipeline_name)
  /\ (~Truthy(F.script_name) \/ rec.script_name = F.script_name)
  /\ (~Truthy(F.pipeline_type) \/ rec.pipeline_type = F.pipeline_type)
  /\ (~Truthy(F.environment) \/ rec.environment = F.environment)

_apply_filters(data, F) == SelectSeq(data, LAMBDA rec : Matches(rec, F))

\* list.sort(key=lambda r: r.start_utc, reverse=True): a stable sort, so
\* records with the same start_utc keep the order they had.
InsertDesc(sorted, rec) ==
  LET after == {i \in 1..Len(sorted) : sorted[i].start_utc.n >= rec.start_utc.n}
      k == IF after = {} THEN 0 ELSE CHOOSE i \in after : \A j \in after : j <= i
  IN SubSeq(sorted, 1, k) \o <<rec>> \o SubSeq(sorted, k + 1, Len(sorted))

\* SortDesc with the sort left out
SortDescOmitted(data) == data

RECURSIVE SortDesc(_)
SortDesc(data) ==
  IF data = <<>> THEN <<>>
  ELSE InsertDesc(SortDesc(SubSeq(data, 1, Len(data) - 1)), data[Len(data)])

Min(a, b) == IF a <= b THEN a ELSE b
Max(a, b) == IF a >= b THEN a ELSE b

\* list[lo:hi] for 0 <= lo, 0 <= hi
Slice(list, lo, hi) == SubSeq(list, Min(lo, Len(list)) + 1, Min(hi, Len(list)))

\* Page with the slice one element too long
PageOneMore(filtered, limit, offset) ==
  IF limit # -1 THEN Slice(filtered, offset, offset + limit + 1)
  ELSE Slice(filtered, offset, Len(filtered))

\* lines 101-103; limit = -1 stands for limit=None
Page(filtered, limit, offset) ==
  IF limit # -1 THEN Slice(filtered, offset, offset + limit)
  ELSE Slice(filtered, offset, Len(filtered))

\* QueryRead with the page cut before the sort
QueryReadCutsFirst(read, F, limit, offset) ==
  IF read.raised THEN [raised |-> TRUE, value |-> <<>>]
  ELSE [raised |-> FALSE,
        value |-> SortDesc(Page(_apply_filters(read.data, F), limit, offset))]

\* lines 97-103, on what _read_all returned
QueryRead(read, F, limit, offset) ==
  IF read.raised THEN [raised |-> TRUE, value |-> <<>>]
  ELSE [raised |-> FALSE,
        value |-> Page(SortDesc(_apply_filters(read.data, F)), limit, offset)]

\* JsonlPipelineRepository.get_pipeline_info: [raised, value]
repo_get_pipeline_info(file, F, limit, offset) ==
  QueryRead(_read_all(file), F, limit, offset)

\* CountRead with the filter left out
CountReadUnfiltered(read, F) ==
  IF read.raised THEN [raised |-> TRUE, value |-> 0]
  ELSE [raised |-> FALSE, value |-> Len(read.data)]

\* lines 107-108, on what _read_all returned
CountRead(read, F) ==
  IF read.raised THEN [raised |-> TRUE, value |-> 0]
  ELSE [raised |-> FALSE, value |-> Len(_apply_filters(read.data, F))]

\* JsonlPipelineRepository.count_pipeline_info: [raised, value]
repo_count_pipeline_info(file, F) == CountRead(_read_all(file), F)

\* repo_insert_pipeline_info with the file opened for writing, not appending
repo_insert_truncating(file, record) ==
  [exists |-> TRUE, lines |-> <<ObjectLine(Serialize(record))>>]

\* repo_insert_pipeline_info with the oldest line dropped as the new one is
\* written
repo_insert_rotating(file, record) ==
  [exists |-> TRUE,
   lines |-> Append(IF file.lines = <<>> THEN <<>> ELSE Tail(file.lines),
                    ObjectLine(Serialize(record)))]

\* JsonlPipelineRepository.insert_pipeline_info: open(..., 'a') creates the
\* file when it is missing and writes the one line after the lines it holds
repo_insert_pipeline_info(file, record) ==
  [exists |-> TRUE, lines |-> Append(file.lines, ObjectLine(Serialize(record)))]

\* LookupRead with the scan keeping the last record it meets
LookupReadLast(read, date_code) ==
  IF read.raised THEN [raised |-> TRUE, found |-> FALSE, rec |-> <<>>]
  ELSE IF \E i \in 1..Len(read.data) : read.data[i].date_code = date_code
  THEN [raised |-> FALSE, found |-> TRUE,
        rec |-> read.data[CHOOSE i \in 1..Len(read.data) :
                            /\ read.data[i].date_code = date_code
                            /\ \A k \in (i + 1)..Len(read.data) :
                                 read.data[k].date_code # date_code]]
  ELSE [raised |-> FALSE, found |-> FALSE, rec |-> <<>>]

\* lines 173-176, on what _read_all returned: the first record in file
\* order with the date_code
LookupRead(read, date_code) ==
  IF read.raised THEN [raised |-> TRUE, found |-> FALSE, rec |-> <<>>]
  ELSE IF \E i \in 1..Len(read.data) : read.data[i].date_code = date_code
  THEN [raised |-> FALSE, found |-> TRUE,
        rec |-> read.data[CHOOSE i \in 1..Len(read.data) :
                            /\ read.data[i].date_code = date_code
                            /\ \A k \in 1..(i - 1) : read.data[k].date_code # date_code]]
  ELSE [raised |-> FALSE, found |-> FALSE, rec |-> <<>>]

\* JsonlPipelineRepository.get_pipeline_info_by_date_code
get_pipeline_info_by_date_code(file, date_code) == LookupRead(_read_all(file), date_code)

(***************************************************************************)
(* repository.py: get_pipelines_summary.  A mean is kept as the fraction   *)
(* sum / len in lowest terms.                                              *)
(***************************************************************************)
\* line 116: the grouping key of a record
GroupKey(rec) == <<rec.pipeline_name, rec.script_name, rec.pipeline_type, rec.environment>>

\* lines 114-117: the keys of the dict, in the order they were first met
GroupKeys(data) ==
  LET first == SelectSeq([i \in 1..Len(data) |-> i],
                         LAMBDA i : \A j \in 1..(i - 1) : GroupKey(data[j]) # GroupKey(data[i]))
  IN [k \in 1..Len(first) |-> GroupKey(data[first[k]])]

\* the list groups[key]
Group(data, key) == SelectSeq(data, LAMBDA rec : GroupKey(rec) = key)

RECURSIVE Gcd(_, _)
Gcd(a, b) == IF b = 0 THEN a ELSE Gcd(b, a % b)

RECURSIVE Sum(_)
Sum(values) == IF values = <<>> THEN 0 ELSE values[1] + Sum(Tail(values))

\* sum(values) / len(values) if values else None
Mean(values) ==
  IF values = <<>> THEN None
  ELSE [t |-> "float", s |-> <<>>,
        n |-> Sum(values) \div Gcd(Sum(values), Len(values)),
        d |-> Len(values) \div Gcd(Sum(values), Len(values))]

\* Positive with the zeros kept
PositiveOrZero(values) == SelectSeq(values, LAMBDA x : x >= 0)

\* lines 126-127: [x for x in values if x > 0]
Positive(values) == SelectSeq(values, LAMBDA x : x > 0)

\* line 130: max(records, key=lambda r: r.start_utc), the first of the
\* records with the largest start_utc
Latest(records) ==
  records[CHOOSE i \in 1..Len(records) :
            /\ \A j \in 1..Len(records) : records[j].start_utc.n <= records[i].start_utc.n
            /\ \A j \in 1..(i - 1) : records[j].start_utc.n < records[i].start_utc.n]

\* lines 125-141: the PipelineSummary of one group
PipelineSummary(key, records) ==
  [pipeline_name |-> key[1], script_name |-> key[2], pipeline_type |-> key[3],
   environment |-> key[4],
   total_runs |-> Len(records),
   last_run |-> Latest(records).start_utc,
   avg_duration |-> Mean(Positive([i \in 1..Len(records) |-> records[i].elapsed_seconds.n])),
   avg_rowcount |-> Mean(Positive([i \in 1..Len(records) |-> records[i].rowcount.n]))]

\* line 145: summaries.sort(key=last_run, reverse=True), a stable sort
InsertByLastRun(sorted, summary) ==
  LET after == {i \in 1..Len(sorted) : sorted[i].last_run.n >= summary.last_run.n}
      k == IF after = {} THEN 0 ELSE CHOOSE i \in after : \A j \in after : j <= i
  IN SubSeq(sorted, 1, k) \o <<summary>> \o SubSeq(sorted, k + 1, Len(sorted))

RECURSIVE SortByLastRun(_)
SortByLastRun(summaries) ==
  IF summaries = <<>> THEN <<>>
  ELSE InsertByLastRun(SortByLastRun(SubSeq(summaries, 1, Len(summaries) - 1)),
                       summaries[Len(summaries)])

\* lines 112-146, on what _read_all returned
Summarize(data, keys) ==
  SortByLastRun([k \in 1..Len(keys) |-> PipelineSummary(keys[k], Group(data, keys[k]))])

SummaryRead(read) ==
  IF read.raised THEN [raised |-> TRUE, value |-> <<>>]
  ELSE [raised |-> FALSE, value |-> Summarize(read.data, GroupKeys(read.data))]

\* JsonlPipelineRepository.get_pipelines_summary: [raised, value]
get_pipelines_summary(file) == SummaryRead(_read_all(file))

(***************************************************************************)
(* main.py: the handlers                                                   *)
(***************************************************************************)
LimitMax == 10000

NoReq == [op |-> "none", F |-> <<>>, limit |-> 0, offset |-> 0, all_data |-> FALSE,
          body |-> <<>>, date_code |-> None]
NoResp == [op |-> "none", status |-> 0, results |-> <<>>, total |-> 0, count |-> 0,
           pipelines |-> {}]
Response(op, status, results, total, pipelines) ==
  [op |-> op, status |-> status, results |-> results, total |-> total,
   count |-> Len(results), pipelines |-> pipelines]

\* line 120: the distinct truthy pipeline names of the page
UniquePipelines(data) ==
  {data[i].pipeline_name.s : i \in {j \in 1..Len(data) : Truthy(data[j].pipeline_name)}}

\* QueryResponse with the size of the page as the total
QueryResponsePageTotal(data, counted, all_data) ==
  IF data.raised \/ (~all_data /\ counted.raised)
  THEN Response("query", 500, <<>>, 0, {})
  ELSE Response("query", 200, data.value, Len(data.value), UniquePipelines(data.value))

\* lines 94-134 once the two repository calls are made: an exception that
\* is neither ValueError nor FileNotFoundError becomes 500
QueryResponse(data, counted, all_data) ==
  IF data.raised \/ (~all_data /\ counted.raised)
  THEN Response("query", 500, <<>>, 0, {})
  ELSE Response("query", 200, data.value,
                IF ~all_data THEN counted.value ELSE Len(data.value),
                UniquePipelines(data.value))

\* Rejected with no upper end to limit
RejectedBelowOnly(limit, offset) == limit < 1 \/ offset < 0

\* lines 75-76: limit is Query(100, ge=1, le=10000), offset is Query(0, ge=0)
Rejected(limit, offset) == limit < 1 \/ limit > LimitMax \/ offset < 0

\* GET /get_pipeline_info.  The Query(...) declarations of limit and offset
\* reject the request with 422 before the body runs.
get_pipeline_info(file, F, limit, offset, all_data) ==
  IF Rejected(limit, offset)
  THEN Response("query", 422, <<>>, 0, {})
  ELSE QueryResponse(
         repo_get_pipeline_info(file, F, IF all_data THEN -1 ELSE limit,
                                IF all_data THEN 0 ELSE offset),
         repo_count_pipeline_info(file, F), all_data)

\* the repository methods the body of get_pipeline_info calls, in order:
\* lines 95-106 and 108-119, the second call made only when the first returned
QueryCalls(data, all_data) ==
  IF data.raised \/ all_data THEN <<"get_pipeline_info">>
  ELSE <<"get_pipeline_info", "count_pipeline_info">>

\* the repository calls of one GET /get_pipeline_info: none when the
\* parameters are rejected, since the body does not run
get_pipeline_info_calls(file, F, limit, offset, all_data) ==
  IF Rejected(limit, offset) THEN <<>>
  ELSE QueryCalls(repo_get_pipeline_info(file, F, IF all_data THEN -1 ELSE limit,
                                         IF all_data THEN 0 ELSE offset), all_data)

\* GET /pipelines, lines 58-63
SummaryResponse(summaries) ==
  IF summaries.raised THEN Response("summary", 500, <<>>, 0, {})
  ELSE Response("summary", 200, summaries.value, 0, {})

list_pipelines(file) == SummaryResponse(get_pipelines_summary(file))

\* POST /pipelines.  The body is validated into a PipelineInfo before the
\* handler runs (422 when it fails); the handler returns the record.
CreateResponse(record) ==
  IF ~record.ok THEN Response("insert", 422, <<>>, 0, {})
  ELSE Response("insert", 201, <<record.rec>>, 0, {})

create_pipeline(body) == CreateResponse(PipelineInfo(body))

\* the file after the request: REPO.insert_pipeline_info runs only for a
\* body that validated
CreateStore(file, record) ==
  IF ~record.ok THEN file ELSE repo_insert_pipeline_info(file, record.rec)

create_pipeline_store(file, body) == CreateStore(file, PipelineInfo(body))

(***************************************************************************)
(* repository.py: OraclePipelineRepository.  The table is a sequence of    *)
(* rows, a row a function from column names to values, with None for NULL. *)
(* The table has the columns insert_pipeline_info writes to: for every     *)
(* field the column the column map gives it, the column of the field's own *)
(* name when the map does not hold it.  A statement that names a column    *)
(* the table does not have fails (ORA-00904), whatever the rows.  The      *)
(* order of rows that ORDER BY leaves equal is the database's choice, so   *)
(* a query has a set of possible results.                                  *)
(***************************************************************************)
Unmapped == ""

\* lines 184-193: json.loads(ORACLE_COLUMN_MAP), {} when it is not set; a
\* field the mapping does not hold is Unmapped
NoColumnMap == [f \in Fields |-> Unmapped]

\* the example of line 185
ExampleColumnMap ==
  [NoColumnMap EXCEPT !["start_utc"] = "START_UTC_COL", !["rowcount"] = "ROW_COUNT"]

\* a mapping that holds every field and renames rowcount
FullColumnMap == [f \in Fields |-> IF f = "rowcount" THEN "ROW_COUNT" ELSE f]

ColumnMaps == {NoColumnMap, ExampleColumnMap, FullColumnMap}

\* the repository object and the table it connects to
NoOracle == [column_map |-> NoColumnMap, table |-> <<>>]

\* self.column_map.items(): the fields the mapping holds
column_map_items(column_map) == {f \in Fields : column_map[f] # Unmapped}

\* self.column_map.get(k, k)
column_map_get(column_map, k) ==
  IF column_map[k] # Unmapped THEN column_map[k] ELSE k

\* the columns of the table
Columns(column_map) == {column_map_get(column_map, f) : f \in Fields}

FieldOf(column_map, col) == CHOOSE f \in Fields : column_map_get(column_map, f) = col

\* insert_pipeline_info, lines 324-344: INSERT INTO table (columns) VALUES (binds)
InsertedRow(column_map, record) ==
  [c \in Columns(column_map) |-> record[FieldOf(column_map, c)]]

oracle_insert_pipeline_info(db, record) ==
  [db EXCEPT !.table = Append(@, InsertedRow(db.column_map, record))]

\* _build_where, lines 205-240: the conditions of the criteria that are
\* present, in the order they are appended
_build_where(column_map, F) ==
  SelectSeq(
    <<[on |-> Truthy(F.start_utc), col |-> column_map_get(column_map, "start_utc"),
       op |-> ">=", val |-> F.start_utc],
      [on |-> Truthy(F.end_utc), col |-> column_map_get(column_map, "end_utc"),
       op |-> "<=", val |-> F.end_utc],
      [on |-> F.min_rowcount # None, col |-> "rowcount", op |-> ">=",
       val |-> F.min_rowcount],
      [on |-> F.max_rowcount # None, col |-> "rowcount", op |-> "<=",
       val |-> F.max_rowcount],
      [on |-> Truthy(F.pipeline_name),
       col |-> column_map_get(column_map, "pipeline_name"), op |-> "=",
       val |-> F.pipeline_name],
      [on |-> Truthy(F.script_name), col |-> column_map_get(column_map, "script_name"),
       op |-> "=", val |-> F.script_name],
      [on |-> Truthy(F.pipeline_type),
       col |-> column_map_get(column_map, "pipeline_type"), op |-> "=",
       val |-> F.pipeline_type],
      [on |-> Truthy(F.environment), col |-> column_map_get(column_map, "environment"),
       op |-> "=", val |-> F.environment]>>,
    LAMBDA cond : cond.on)

\* the columns a WHERE clause names
Named(where) == {where[i].col : i \in 1..Len(where)}

\* one condition on one row; a comparison with NULL is not true
Holds(row, cond) ==
  CASE cond.op = ">=" -> row[cond.col].t # "null" /\ row[cond.col].n >= cond.val.n
    [] cond.op = "<=" -> row[cond.col].t # "null" /\ row[cond.col].n <= cond.val.n
    [] cond.op = "="  -> row[cond.col].t # "null" /\ row[cond.col] = cond.val

\* " AND ".join(where)
Satisfies(row, where) == \A i \in 1..Len(where) : Holds(row, where[i])

Where(rows, where) == SelectSeq(rows, LAMBDA row : Satisfies(row, where))

\* ORDER BY col DESC: every arrangement of the rows that does not rise
OrderByDesc(rows, col) ==
  {[i \in 1..Len(rows) |-> rows[p[i]]] :
     p \in {q \in [1..Len(rows) -> 1..Len(rows)] :
              /\ \A i, j \in 1..Len(rows) : i # j => q[i] # q[j]
              /\ \A i \in 1..(Len(rows) - 1) :
                   rows[q[i]][col].n >= rows[q[i + 1]][col].n}}

\* lines 254-261: ROWNUM <= offset + limit inside, rnum > offset outside;
\* no window at all when limit is None (-1)
Window(ordered, limit, offset) ==
  IF limit = -1 THEN ordered
  ELSE [k \in 1..Max(0, Min(offset + limit, Len(ordered)) - offset) |->
          ordered[offset + k]]

\* lines 245-249: the mapped fields as `column as field`, or * for every
\* column when there is no mapping
SelectList(column_map) ==
  IF column_map_items(column_map) # {} THEN column_map_items(column_map) ELSE Fields

\* dict(zip(cols, row)) of one fetched row
Fetch(column_map, row) ==
  [f \in SelectList(column_map) |-> row[column_map_get(column_map, f)]]

\* line 268: PipelineInfo(**...) of every fetched row; a ValidationError
\* ends the call
Models(parsed) ==
  IF \E i \in 1..Len(parsed) : ~parsed[i].ok THEN [raised |-> TRUE, value |-> <<>>]
  ELSE [raised |-> FALSE, value |-> [i \in 1..Len(parsed) |-> parsed[i].rec]]

Fetchall(column_map, rows) ==
  Models([i \in 1..Len(rows) |-> PipelineInfo(Fetch(column_map, rows[i]))])

\* get_pipeline_info once the WHERE clause is built
OracleQuery(db, where, limit, offset) ==
  IF ~(Named(where) \subseteq Columns(db.column_map))
  THEN {[raised |-> TRUE, value |-> <<>>]}
  ELSE {Fetchall(db.column_map, Window(ordered, limit, offset)) :
          ordered \in OrderByDesc(Where(db.table, where),
                                  column_map_get(db.column_map, "start_utc"))}

\* OraclePipelineRepository.get_pipeline_info: the results it can give,
\* each [raised, value]
oracle_get_pipeline_info(db, F, limit, offset) ==
  OracleQuery(db, _build_where(db.column_map, F), limit, offset)

OracleCount(db, where) ==
  IF ~(Named(where) \subseteq Columns(db.column_map)) THEN [raised |-> TRUE, value |-> 0]
  ELSE [raised |-> FALSE, value |-> Len(Where(db.table, where))]

\* OraclePipelineRepository.count_pipeline_info: [raised, value]
oracle_count_pipeline_info(db, F) == OracleCount(db, _build_where(db.column_map, F))

\* the columns the statement of get_pipelines_summary names, lines 288-300
SummaryColumns ==
  {"pipeline_name", "script_name", "pipeline_type", "environment", "start_utc",
   "elapsed_seconds", "rowcount"}

\* GROUP BY pipeline_name, script_name, pipeline_type, environment
RowKey(row) == <<row.pipeline_name, row.script_name, row.pipeline_type, row.environment>>

RowGroup(rows, key) == SelectSeq(rows, LAMBDA row : RowKey(row) = key)

\* MAX(start_utc) of the rows of a group
MaxStart(rows) ==
  rows[CHOOSE i \in 1..Len(rows) :
         \A j \in 1..Len(rows) : rows[j].start_utc.n <= rows[i].start_utc.n].start_utc

\* one row of the result: COUNT(*), MAX(start_utc), AVG(elapsed_seconds),
\* AVG(rowcount) over every row of the group
SummaryRow(key, rows) ==
  [pipeline_name |-> key[1], script_name |-> key[2], pipeline_type |-> key[3],
   environment |-> key[4],
   total_runs |-> Len(rows),
   last_run |-> MaxStart(rows),
   avg_duration |-> Mean([i \in 1..Len(rows) |-> rows[i].elapsed_seconds.n]),
   avg_rowcount |-> Mean([i \in 1..Len(rows) |-> rows[i].rowcount.n])]

SummaryRows(rows) ==
  {SummaryRow(key, RowGroup(rows, key)) : key \in {RowKey(rows[i]) : i \in 1..Len(rows)}}

\* ORDER BY last_run DESC of the rows of the result
OrderSummary(summaries) ==
  {s \in [1..Cardinality(summaries) -> summaries] :
     /\ \A i, j \in 1..Cardinality(summaries) : i # j => s[i] # s[j]
     /\ \A i \in 1..(Cardinality(summaries) - 1) : s[i].last_run.n >= s[i + 1].last_run.n}

\* OraclePipelineRepository.get_pipelines_summary: the results it can give
oracle_get_pipelines_summary(db) ==
  IF ~(SummaryColumns \subseteq Columns(db.column_map))
  THEN {[raised |-> TRUE, value |-> <<>>]}
  ELSE {[raised |-> FALSE, value |-> s] : s \in OrderSummary(SummaryRows(db.table))}

(***************************************************************************)
(* main.py and repository.py: what happens when main is imported.  The     *)
(* process environment is a record of the variables the code reads, None   *)
(* for one that is not set; oracledb says whether the driver can be        *)
(* imported.                                                               *)
(***************************************************************************)
\* str.lower() on the spellings the flag is given in
lower(v) ==
  IF v = JStr(<<"ORACLE">>) \/ v = JStr(<<"Oracle">>) THEN JStr(<<"oracle">>)
  ELSE IF v = JStr(<<"JSONL">>) THEN JStr(<<"jsonl">>)
  ELSE v

\* os.environ.get(name, default)
environ_get(environ, name, default) == IF environ[name] = None THEN default ELSE environ[name]

\* JsonlPipelineRepository.__init__ reads one variable and cannot fail
JsonlPipelineRepository(environ) == [raised |-> FALSE, repo |-> "jsonl"]

\* OraclePipelineRepository.__init__, lines 195-203: ValueError when one of
\* the three connection parameters is missing or empty, ImportError when
\* the driver is not installed
OraclePipelineRepository(environ) ==
  IF ~(Truthy(environ.ORACLE_DSN) /\ Truthy(environ.ORACLE_USER) /\ Truthy(environ.ORACLE_PASSWORD))
  THEN [raised |-> TRUE, repo |-> "none"]
  ELSE IF ~environ.oracledb THEN [raised |-> TRUE, repo |-> "none"]
  ELSE [raised |-> FALSE, repo |-> "oracle"]

\* get_repository with the flat-file backend behind a failed one
get_repository_fallback(backend, environ) ==
  IF backend = JStr(<<"oracle">>) /\ ~OraclePipelineRepository(environ).raised
  THEN OraclePipelineRepository(environ)
  ELSE JsonlPipelineRepository(environ)

\* repository.py lines 8-11
get_repository(backend, environ) ==
  IF backend = JStr(<<"oracle">>) THEN OraclePipelineRepository(environ)
  ELSE JsonlPipelineRepository(environ)

MiB == 1024 * 1024

\* int(v) for an int and for the decimal text of a small number
Decimals == <<"0", "1", "2", "3">>
int(v) == IF v.t = "int" THEN v.n ELSE (CHOOSE k \in 1..Len(Decimals) : Decimals[k] = v.s[1]) - 1

\* the process before main is imported
Importing(environ) ==
  [phase |-> "importing", environ |-> environ, DATA_BACKEND |-> None, REPO |-> "none",
   MAX_FILE_SIZE_BYTES |-> 0]

\* main.py lines 35-46 on what get_repository did: the except clause
\* re-raises, so the import fails and there is no application to serve
Imported(environ, backend, repository) ==
  IF repository.raised
  THEN [phase |-> "failed", environ |-> environ, DATA_BACKEND |-> backend,
        REPO |-> "none", MAX_FILE_SIZE_BYTES |-> 0]
  ELSE [phase |-> "serving", environ |-> environ, DATA_BACKEND |-> backend,
        REPO |-> repository.repo,
        MAX_FILE_SIZE_BYTES |-> int(environ_get(environ, "MAX_FILE_SIZE_MB", JInt(50))) * MiB]

\* main.py lines 35-46
import_main(environ) ==
  Imported(environ, lower(environ_get(environ, "PIPELINE_BACKEND", JStr(<<"jsonl">>))),
           get_repository(lower(environ_get(environ, "PIPELINE_BACKEND", JStr(<<"jsonl">>))),
                          environ))

\* GET /health, lines 145-148
health(backend) == [NoResp EXCEPT !.op = "health", !.status = 200, !.results = <<backend>>]

\* the environment with nothing set and no driver installed
DefaultEnviron ==
  [PIPELINE_BACKEND |-> None, ORACLE_DSN |-> None, ORACLE_USER |-> None,
   ORACLE_PASSWORD |-> None, MAX_FILE_SIZE_MB |-> None, oracledb |-> FALSE]

(***************************************************************************)
(* main.py: get_archived_file.  A path is a token sequence in which "/"    *)
(* and ".." are tokens and a file name is its stem followed by one token   *)
(* for each extension (".gz", ".tmp"); a MIME type is the token of its     *)
(* top-level type with the "/" followed by the tokens of the subtype.      *)
(***************************************************************************)
EndsWith(str, suffix) ==
  Len(str) >= Len(suffix) /\ SubSeq(str, Len(str) - Len(suffix) + 1, Len(str)) = suffix

\* Path(p).is_absolute()
is_absolute(path) == path # <<>> /\ path[1] = "/"

\* Path(p).name: what follows the last "/"
PathName(path) ==
  IF Slashes(path) = {} THEN path
  ELSE SubSeq(path, (CHOOSE i \in Slashes(path) : \A j \in Slashes(path) : j <= i) + 1,
              Len(path))

\* name[:-8]: the name without the seven characters of ".gz.tmp" and
\* without the character before them; the token "[:-1]" says that the token
\* after it has lost its last character
CutEight(name) ==
  IF Len(name) <= 2 THEN <<>>
  ELSE SubSeq(name, 1, Len(name) - 3) \o <<"[:-1]", name[Len(name) - 2]>>

\* CleanName with the two tests in the other order
CleanNameGzFirst(name) ==
  IF EndsWith(name, <<".gz", ".tmp">>) THEN CutEight(name) \o <<".gz">>
  ELSE IF EndsWith(name, <<".tmp">>) THEN SubSeq(name, 1, Len(name) - 1)
  ELSE name

\* lines 188-191
CleanName(name) ==
  IF EndsWith(name, <<".tmp">>) THEN SubSeq(name, 1, Len(name) - 1)
  ELSE IF EndsWith(name, <<".gz", ".tmp">>) THEN CutEight(name) \o <<".gz">>
  ELSE name

\* mimetypes: the encoding a last extension stands for, and the type of
\* an extension
Encodings == [e \in {".gz", ".bz2", ".Z"} |->
                IF e = ".gz" THEN "gzip" ELSE IF e = ".bz2" THEN "bzip2" ELSE "compress"]
Types ==
  [e \in {".txt", ".json", ".xml", ".dtd", ".png", ".pdf"} |->
     CASE e = ".txt"  -> <<"text/", "plain">>
       [] e = ".json" -> <<"application/", "json">>
       [] e = ".xml"  -> <<"application/", "xml">>
       [] e = ".dtd"  -> <<"application/", "xml", "-dtd">>
       [] e = ".png"  -> <<"image/", "png">>
       [] e = ".pdf"  -> <<"application/", "pdf">>]

NoType == <<>>

\* the type of a name without an encoding extension
TypeOf(name) ==
  IF Len(name) >= 2 /\ name[Len(name)] \in DOMAIN Types THEN Types[name[Len(name)]]
  ELSE NoType

\* mimetypes.guess_type(name): [type, encoding], NoType and "" for None
guess_type(name) ==
  IF Len(name) >= 2 /\ name[Len(name)] \in DOMAIN Encodings
  THEN [type |-> TypeOf(SubSeq(name, 1, Len(name) - 1)),
        encoding |-> Encodings[name[Len(name)]]]
  ELSE [type |-> TypeOf(name), encoding |-> ""]

\* lines 194-204
MimeType(guess) ==
  IF guess.type # NoType THEN guess.type
  ELSE IF guess.encoding = "gzip" THEN <<"application/", "gzip">>
  ELSE IF guess.encoding = "bzip2" THEN <<"application/", "x-bzip2">>
  ELSE IF guess.encoding = "compress" THEN <<"application/", "x-compress">>
  ELSE <<"application/", "octet-stream">>

\* line 211
safe_types == {<<"text/">>, <<"image/">>, <<"application/", "json">>, <<"application/", "xml">>}

\* Disposition with the threshold itself forcing the download
DispositionAtThreshold(file_size, mime_type, max_bytes) ==
  IF file_size >= max_bytes THEN "attachment"
  ELSE IF \E safe \in safe_types : StartsWith(mime_type, safe) THEN "inline"
  ELSE "attachment"

\* lines 207-215
Disposition(file_size, mime_type, max_bytes) ==
  IF file_size > max_bytes THEN "attachment"
  ELSE IF \E safe \in safe_types : StartsWith(mime_type, safe) THEN "inline"
  ELSE "attachment"

\* an HTTPException of the handler
ArchiveError(status, detail) ==
  [op |-> "archive", status |-> status, detail |-> detail, media_type |-> NoType,
   disposition |-> "", filename |-> <<>>, length |-> 0]

\* lines 229-237: the StreamingResponse
ArchiveStream(file_size, download_filename, mime_type, max_bytes) ==
  [op |-> "archive", status |-> 200, detail |-> "", media_type |-> mime_type,
   disposition |-> Disposition(file_size, mime_type, max_bytes),
   filename |-> download_filename, length |-> file_size]

\* lines 162-242 for the record REPO.get_pipeline_info_by_date_code
\* returned (None when there is none) and the file at its path.  Reading
\* an attribute the record does not have raises AttributeError, which the
\* last except clause turns into 500.
get_archived_file(rec, file, max_bytes) ==
  IF rec = None THEN ArchiveError(404, "Pipeline record or archived file not found")
  ELSE IF "archived_file" \notin DOMAIN rec THEN ArchiveError(500, "Internal server error")
  ELSE IF ~Truthy(rec.archived_file)
  THEN ArchiveError(404, "Pipeline record or archived file not found")
  ELSE IF ~file.is_file THEN ArchiveError(404, "Archived file not found on disk")
  ELSE IF Contains(rec.archived_file.s, <<"..">>) \/ ~is_absolute(rec.archived_file.s)
  THEN ArchiveError(403, "Invalid file path")
  ELSE ArchiveStream(file.size, CleanName(PathName(rec.archived_file.s)),
                     MimeType(guess_type(CleanName(PathName(rec.archived_file.s)))),
                     max_bytes)

(***************************************************************************)
(* main.py: file_generator, the async generator the StreamingResponse      *)
(* iterates.  stream.pc is where the generator stands, stream.handle the   *)
(* file handle of the async with, stream.chunks the sizes of the chunks    *)
(* yielded so far and stream.position the read position in the file.       *)
(***************************************************************************)
ChunkSize == 65536  \* 64 * 1024

\* read with the whole rest of the file returned at once
read_rest(file, position, n) == file.size - position

\* f.read(n): the number of bytes returned, 0 at the end of the file
read(file, position, n) == Min(n, file.size - position)

\* Exit with the handle closed only after the loop
ExitClosingAfterLoop(st, how) ==
  [st EXCEPT !.pc = how,
             !.handle = IF @ = "open" /\ how = "done" THEN "released" ELSE @]

\* line 224: the generator leaves the async with block, by the end of the
\* loop, by an exception or by GeneratorExit, and the block closes the file
Exit(st, how) ==
  [st EXCEPT !.pc = how, !.handle = IF @ = "open" THEN "released" ELSE @]

\* lines 226-227: one turn of the loop
ReadChunk(st, n) ==
  IF n = 0 THEN Exit(st, "done")
  ELSE [st EXCEPT !.pc = "suspended", !.chunks = Append(@, n), !.position = @ + n]

(***************************************************************************)
(* Inputs: the bodies producers post, the lines other writers left in the  *)
(* file, and the query parameters.                                         *)
(***************************************************************************)
OutputPath == <<"/", "data", "/", "out", "/", "output", "-", "1.data">>
LogPath == <<"/", "data", "/", "log", "/", "job.log">>

\* a body as a producer posts it: timestamps spelled with "Z"
Payload(date_code, start, end, rowcount, name, script, type, environment) ==
  [start_local |-> JTime("Z", start), end_local |-> JTime("Z", end),
   start_utc |-> JTime("Z", start), end_utc |-> JTime("Z", end),
   elapsed_seconds |-> JInt(end - start), elapsed_human |-> JStr(<<"1s">>),
   output_file |-> JStr(OutputPath), rowcount |-> JInt(rowcount),
   log_file |-> JStr(LogPath), pid |-> JInt(7), date_code |-> JStr(<<date_code>>),
   pipeline_name |-> name, script_name |-> script,
   pipeline_type |-> type, environment |-> environment]

Classification == {"pipeline_name", "script_name", "pipeline_type", "environment"}

BodyA == Payload("d1", 1, 1, 0, JStr(<<"a">>), JStr(<<"s">>), JStr(<<"batch">>),
                 JStr(<<"prod">>))
BodyB == Without(Payload("d2", 2, 3, 2, None, None, None, None), Classification)
BodyC == Payload("d1", 1, 2, -1, JStr(<<"a">>), JStr(<<"s">>), JStr(<<"batch">>),
                 JStr(<<"prod">>))
ArchivePath == <<"/", "archive", "/", "lot", ".gz">>
BodyArchived == With(Payload("d3", 2, 2, 1, JStr(<<"b">>), None, None, JStr(<<"prod">>)),
                     "archived_file", JStr(ArchivePath))
BodyNoRowcount == Without(BodyA, {"rowcount"})
BodyD == Payload("d4", 1, 3, 3, JStr(<<"a">>), JStr(<<"s">>), JStr(<<"batch">>),
                 JStr(<<"prod">>))

Bodies == {BodyA, BodyB, BodyC, BodyArchived, BodyNoRowcount}

\* lines of records that predate pipeline_name
LegacyOutput == With(Without(BodyA, {"pipeline_name"}), "output_file",
  JStr(<<"/", "apps", "/", "pipeline", "/", "sales_etl", "/", "output", "-", "1.data">>))
LegacyLog ==
  With(With(Without(BodyA, {"pipeline_name"}), "output_file",
            JStr(<<"/", "apps", "/", "pipeline", "/", "output", "-", "1.data">>)),
       "log_file", JStr(<<"/", "apps", "/", "pipeline", "/", "logs", "/", "job", "-", "1.log">>))
LegacyNumberPath == With(Without(BodyA, {"pipeline_name"}), "output_file", JInt(5))

PreexistingLines ==
  {BlankLine, TextLine, ScalarLine(JArray(0)), ObjectLine(BodyC), ObjectLine(BodyD),
   ObjectLine(With(BodyA, "date_code", JInt(5))), ObjectLine(BodyNoRowcount),
   ObjectLine(LegacyOutput), ObjectLine(LegacyLog), ObjectLine(LegacyNumberPath)}

BoundedSeq(S, n) == UNION {[1..k -> S] : k \in 0..n}

NoFile == [exists |-> FALSE, lines |-> <<>>]

FilterInputs ==
  {F \in [start_utc : {None, Datetime(2)}, end_utc : {None, Datetime(2)},
          min_rowcount : {None, JInt(0)}, max_rowcount : {None, JInt(0)},
          pipeline_name : {None, JStr(<<>>), JStr(<<"a">>)},
          script_name : {None, JStr(<<>>), JStr(<<"s">>)},
          pipeline_type : {None, JStr(<<>>), JStr(<<"batch">>)},
          environment : {None, JStr(<<>>), JStr(<<"prod">>)}] :
     Cardinality({c \in Criteria : F[c] # None}) <= MaxPresent}

\* the filter with no criterion
UnfilteredInputs == {F \in FilterInputs : \A c \in Criteria : F[c] = None}

\* limits and offsets around the ends of the accepted ranges
LimitInputs == {-1, 0, 1, LimitMax, LimitMax + 1}
OffsetInputs == {-1, 0}

DateCodes == {JStr(<<"d1">>), JStr(<<"d2">>), JStr(<<"d3">>), JStr(<<"d9">>)}

(***************************************************************************)
(* The state machine.  One client at a time: a request is handled in one   *)
(* step and its response is delivered before the next request.  pages is   *)
(* what a client paging through a result has put together so far.          *)
(***************************************************************************)
NoDisk == [is_file |-> FALSE, size |-> 0]
NoFrame == [pc |-> "none", data |-> [raised |-> FALSE, value |-> <<>>]]
NoStream == [pc |-> "none", handle |-> "none", chunks |-> <<>>, position |-> 0]

NoPages == [active |-> FALSE, F |-> <<>>, limit |-> 0, next |-> 0, acc |-> <<>>]

Init ==
  /\ store \in {NoFile} \cup
       {[exists |-> TRUE, lines |-> l] : l \in BoundedSeq(PreexistingLines, MaxPreexisting)}
  /\ req = NoReq
  /\ resp = NoResp
  /\ pages = NoPages
  /\ calls = <<>>
  /\ app = import_main(DefaultEnviron)
  /\ fetched = None
  /\ disk = NoDisk
  /\ stream = NoStream
  /\ frame = NoFrame
  /\ oracle = NoOracle
  /\ answer = NoResp

\* the flat file after the query handler: a rejected request reads nothing
get_pipeline_info_file(file, limit, offset) ==
  IF Rejected(limit, offset) THEN file ELSE _read_all_file(file)

Idle == resp.op = "none"

Query ==
  /\ Idle
  /\ \E F \in FilterInputs, limit \in 1..MaxLimit, offset \in 0..MaxOffset,
        all_data \in BOOLEAN :
       /\ all_data => (limit = 1 /\ offset = 0)
       /\ req' = [NoReq EXCEPT !.op = "query", !.F = F, !.limit = limit,
                               !.offset = offset, !.all_data = all_data]
       /\ resp' = get_pipeline_info(store, F, limit, offset, all_data)
       /\ calls' = get_pipeline_info_calls(store, F, limit, offset, all_data)
       /\ pages' = IF ~all_data /\ offset = 0 /\ resp'.status = 200
                   THEN [active |-> TRUE, F |-> F, limit |-> limit, next |-> limit,
                         acc |-> resp'.results]
                   ELSE NoPages
  /\ store' = get_pipeline_info_file(store, req'.limit, req'.offset)
  /\ UNCHANGED <<app, fetched, disk, stream, frame, oracle, answer>>

\* a request with limit or offset at and beyond the ends of what is accepted
QueryAtBounds ==
  /\ Idle
  /\ \E F \in UnfilteredInputs, limit \in LimitInputs, offset \in OffsetInputs,
        all_data \in BOOLEAN :
       /\ req' = [NoReq EXCEPT !.op = "query", !.F = F, !.limit = limit,
                               !.offset = offset, !.all_data = all_data]
       /\ resp' = get_pipeline_info(store, F, limit, offset, all_data)
       /\ calls' = get_pipeline_info_calls(store, F, limit, offset, all_data)
  /\ pages' = NoPages
  /\ store' = get_pipeline_info_file(store, req'.limit, req'.offset)
  /\ UNCHANGED <<app, fetched, disk, stream, frame, oracle, answer>>

\* the client asks for the page after the ones it has
NextPage ==
  /\ pages.active
  /\ resp.op = "query" /\ resp.results # <<>>
  /\ pages.next <= MaxOffset
  /\ req' = [req EXCEPT !.offset = pages.next]
  /\ resp' = get_pipeline_info(store, pages.F, pages.limit, pages.next, FALSE)
  /\ calls' = get_pipeline_info_calls(store, pages.F, pages.limit, pages.next, FALSE)
  /\ pages' = IF resp'.status = 200
              THEN [pages EXCEPT !.next = @ + pages.limit, !.acc = @ \o resp'.results]
              ELSE NoPages
  /\ store' = get_pipeline_info_file(store, pages.limit, pages.next)
  /\ UNCHANGED <<app, fetched, disk, stream, frame, oracle, answer>>

\* REPO.count_pipeline_info called on its own: status 500 stands for the
\* exception it lets through
\* REPO.get_pipeline_info_by_date_code called on its own: status 404 stands
\* for the None it returns, status 500 for the exception it lets through
LookupResult(looked) ==
  IF looked.raised THEN Response("lookup", 500, <<>>, 0, {})
  ELSE IF looked.found THEN Response("lookup", 200, <<looked.rec>>, 0, {})
  ELSE Response("lookup", 404, <<>>, 0, {})

CountResult(counted) ==
  [NoResp EXCEPT !.op = "count", !.status = IF counted.raised THEN 500 ELSE 200,
                 !.total = counted.value]

Count ==
  /\ Idle
  /\ \E F \in FilterInputs :
       /\ req' = [NoReq EXCEPT !.op = "count", !.F = F]
       /\ resp' = CountResult(repo_count_pipeline_info(store, F))
  /\ calls' = <<"count_pipeline_info">>
  /\ store' = _read_all_file(store)
  /\ UNCHANGED <<pages, app, fetched, disk, stream, frame, oracle, answer>>

\* the lookup of a record by its date_code
Lookup ==
  /\ Idle
  /\ \E date_code \in DateCodes :
       /\ req' = [NoReq EXCEPT !.op = "lookup", !.date_code = date_code]
       /\ resp' = LookupResult(get_pipeline_info_by_date_code(store, date_code))
  /\ calls' = <<"get_pipeline_info_by_date_code">>
  /\ store' = _read_all_file(store)
  /\ UNCHANGED <<pages, app, fetched, disk, stream, frame, oracle, answer>>

\* GET /pipelines
Summary ==
  /\ Idle
  /\ req' = [NoReq EXCEPT !.op = "summary"]
  /\ resp' = list_pipelines(store)
  /\ calls' = <<"get_pipelines_summary">>
  /\ store' = _read_all_file(store)
  /\ UNCHANGED <<pages, app, fetched, disk, stream, frame, oracle, answer>>

Insert ==
  /\ Idle
  /\ Len(store.lines) < MaxLines
  /\ \E body \in Bodies :
       /\ req' = [NoReq EXCEPT !.op = "insert", !.body = body]
       /\ resp' = create_pipeline(body)
       /\ store' = create_pipeline_store(store, body)
       /\ calls' = IF resp'.status = 201 THEN <<"insert_pipeline_info">> ELSE <<>>
  /\ UNCHANGED <<pages, app, fetched, disk, stream, frame, oracle, answer>>

Deliver ==
  /\ ~Idle
  /\ req' = NoReq
  /\ resp' = NoResp
  /\ pages' = NoPages
  /\ calls' = <<>>
  /\ UNCHANGED <<store, app, fetched, disk, stream, frame, oracle, answer>>

Next == Query \/ QueryAtBounds \/ NextPage \/ Count \/ Lookup \/ Summary \/ Insert \/ Deliver

Spec == Init /\ [][Next]_vars

(***************************************************************************)
(* The lookup-and-stream operation.  fetched is what the repository        *)
(* returned to the handler: None, the PipelineInfo of a stored record, or  *)
(* such a record carrying archived_file; disk is the file at the path.     *)
(***************************************************************************)
MaxThresholdMB == 1  \* largest MAX_FILE_SIZE_MB the service is configured with

ArchiveNames ==
  {<<"foo", ".subconLot", ".gz", ".tmp">>, <<"foo", ".dat", ".tmp">>, <<"foo", ".dat">>,
   <<"report", ".txt">>, <<"report", ".json", ".tmp">>, <<"log", ".txt", ".gz">>,
   <<"schema", ".dtd">>, <<"img", ".png">>, <<"doc", ".pdf">>, <<"tmp">>}

ArchivePaths ==
  UNION {{<<"/", "archive", "/">> \o name, <<"archive", "/">> \o name,
          <<"/", "archive", "/", "..", "/">> \o name, <<"..", "/">> \o name} :
         name \in ArchiveNames}

ArchivedRecord == PipelineInfo(BodyArchived).rec

FetchedInputs ==
  {None, ArchivedRecord}
    \cup {With(ArchivedRecord, "archived_file", v) :
            v \in {None, JStr(<<>>)} \cup {JStr(path) : path \in ArchivePaths}}

SizeInputs ==
  {0, 1, ChunkSize, ChunkSize + 1}
    \cup {m * MiB + d : m \in 0..MaxThresholdMB, d \in {0, 1}}

DiskInputs == {NoDisk} \cup {[is_file |-> TRUE, size |-> n] : n \in SizeInputs}

ThresholdEnvirons ==
  {[DefaultEnviron EXCEPT !.MAX_FILE_SIZE_MB = JStr(<<Decimals[m + 1]>>)] :
     m \in 0..MaxThresholdMB}

InitArchive ==
  /\ store = NoFile
  /\ req = NoReq
  /\ resp = NoResp
  /\ pages = NoPages
  /\ calls = <<>>
  /\ app \in {import_main(environ) : environ \in ThresholdEnvirons}
  /\ fetched = None
  /\ disk \in DiskInputs
  /\ stream = NoStream
  /\ frame = NoFrame
  /\ oracle = NoOracle
  /\ answer = NoResp

\* GET /pipelines/archived/{date_code}: the handler returns the response,
\* and with a StreamingResponse the generator it will iterate
Archive ==
  /\ Idle
  /\ \E rec \in FetchedInputs :
       /\ fetched' = rec
       /\ resp' = get_archived_file(rec, disk, app.MAX_FILE_SIZE_BYTES)
  /\ req' = [NoReq EXCEPT !.op = "archive", !.date_code = BodyArchived.date_code]
  /\ calls' = <<"get_pipeline_info_by_date_code">>
  /\ stream' = IF resp'.status = 200 THEN [NoStream EXCEPT !.pc = "created"] ELSE NoStream
  /\ UNCHANGED <<store, pages, app, disk, frame, oracle, answer>>

\* aiofiles.open succeeds
Open ==
  /\ stream.pc = "created"
  /\ stream' = [stream EXCEPT !.pc = "reading", !.handle = "open"]
  /\ UNCHANGED <<store, req, resp, pages, calls, app, fetched, disk, frame, oracle, answer>>

\* aiofiles.open raises: there is no handle
OpenFails ==
  /\ stream.pc = "created"
  /\ stream' = Exit(stream, "failed")
  /\ UNCHANGED <<store, req, resp, pages, calls, app, fetched, disk, frame, oracle, answer>>

\* chunk := await f.read(chunk_size), then the yield or the end of the loop
Read ==
  /\ stream.pc = "reading"
  /\ stream' = ReadChunk(stream, read(disk, stream.position, ChunkSize))
  /\ UNCHANGED <<store, req, resp, pages, calls, app, fetched, disk, frame, oracle, answer>>

\* f.read raises
ReadFails ==
  /\ stream.pc = "reading"
  /\ stream' = Exit(stream, "failed")
  /\ UNCHANGED <<store, req, resp, pages, calls, app, fetched, disk, frame, oracle, answer>>

\* the consumer takes the chunk and asks for the next
Resume ==
  /\ stream.pc = "suspended"
  /\ stream' = [stream EXCEPT !.pc = "reading"]
  /\ UNCHANGED <<store, req, resp, pages, calls, app, fetched, disk, frame, oracle, answer>>

\* the consumer stops reading: the generator stays where it yielded
Disconnect ==
  /\ stream.pc \in {"created", "suspended"}
  /\ stream' = [stream EXCEPT !.pc = "abandoned"]
  /\ UNCHANGED <<store, req, resp, pages, calls, app, fetched, disk, frame, oracle, answer>>

\* the abandoned generator is closed: GeneratorExit is raised at its yield
Finalize ==
  /\ stream.pc = "abandoned"
  /\ stream' = Exit(stream, "closed")
  /\ UNCHANGED <<store, req, resp, pages, calls, app, fetched, disk, frame, oracle, answer>>

NextArchive ==
  Archive \/ Open \/ OpenFails \/ Read \/ ReadFails \/ Resume \/ Disconnect \/ Finalize

SpecArchive == InitArchive /\ [][NextArchive]_vars

(***************************************************************************)
(* Startup: the process imports main under some environment and, when the  *)
(* import succeeded, answers requests.                                     *)
(***************************************************************************)
BackendFlags ==
  {None, JStr(<<"jsonl">>), JStr(<<"oracle">>), JStr(<<"ORACLE">>), JStr(<<"sqlite">>)}

ParameterInputs == {None, JStr(<<>>), JStr(<<"x">>)}

StartupEnvirons ==
  [PIPELINE_BACKEND : BackendFlags, ORACLE_DSN : ParameterInputs,
   ORACLE_USER : ParameterInputs, ORACLE_PASSWORD : ParameterInputs,
   MAX_FILE_SIZE_MB : {None}, oracledb : BOOLEAN]

InitStartup ==
  /\ store = NoFile
  /\ req = NoReq
  /\ resp = NoResp
  /\ pages = NoPages
  /\ calls = <<>>
  /\ app \in {Importing(environ) : environ \in StartupEnvirons}
  /\ fetched = None
  /\ disk = NoDisk
  /\ stream = NoStream
  /\ frame = NoFrame
  /\ oracle = NoOracle
  /\ answer = NoResp

\* the server imports main: lines 35-46 run once
ImportMain ==
  /\ app.phase = "importing"
  /\ app' = import_main(app.environ)
  /\ UNCHANGED <<store, req, resp, pages, calls, fetched, disk, stream, frame, oracle, answer>>

\* GET /health, which an application that was imported answers
Health ==
  /\ app.phase = "serving"
  /\ Idle
  /\ req' = [NoReq EXCEPT !.op = "health"]
  /\ resp' = health(app.DATA_BACKEND)
  /\ UNCHANGED <<store, pages, calls, app, fetched, disk, stream, frame, oracle, answer>>

NextStartup == ImportMain \/ Health

SpecStartup == InitStartup /\ [][NextStartup]_vars

(***************************************************************************)
(* main.py, get_pipeline_info and create_pipeline as they run side by      *)
(* side.  Both are plain `def` handlers, which the framework runs on       *)
(* worker threads: between the data call (lines 95-106) and the count call *)
(* (lines 108-117) of one query, inserts of other requests can append to   *)
(* the file.  frame holds what the query has in hand between its two       *)
(* calls.  An append of one line is taken as one step.                     *)
(***************************************************************************)
\* the filters of the interleaved query: at most one criterion
InterleavedFilters ==
  {F \in FilterInputs : Cardinality({c \in Criteria : F[c] # None}) <= 1}

InitInterleaved ==
  /\ store \in {NoFile} \cup
       {[exists |-> TRUE, lines |-> l] : l \in BoundedSeq(PreexistingLines, MaxPreexisting)}
  /\ req = NoReq
  /\ resp = NoResp
  /\ pages = NoPages
  /\ calls = <<>>
  /\ app = import_main(DefaultEnviron)
  /\ fetched = None
  /\ disk = NoDisk
  /\ stream = NoStream
  /\ frame = NoFrame
  /\ oracle = NoOracle
  /\ answer = NoResp

\* lines 95-106: the data call of a paginated query.  When it raises, the
\* handler answers at once.
BeginQuery ==
  /\ Idle /\ frame.pc = "none"
  /\ \E F \in InterleavedFilters, limit \in 1..MaxLimit, offset \in 0..MaxOffset :
       /\ req' = [NoReq EXCEPT !.op = "query", !.F = F, !.limit = limit,
                               !.offset = offset]
       /\ frame' = [pc |-> IF repo_get_pipeline_info(store, F, limit, offset).raised
                           THEN "none" ELSE "counting",
                    data |-> repo_get_pipeline_info(store, F, limit, offset)]
       /\ resp' = IF frame'.pc = "none"
                  THEN QueryResponse(frame'.data, frame'.data, FALSE)
                  ELSE NoResp
       /\ calls' = <<"get_pipeline_info">>
  /\ store' = _read_all_file(store)
  /\ UNCHANGED <<pages, app, fetched, disk, stream, oracle, answer>>

\* lines 108-127: the count call over the file as it is now, and the answer
FinishQuery ==
  /\ frame.pc = "counting"
  /\ resp' = QueryResponse(frame.data, repo_count_pipeline_info(store, req.F), FALSE)
  /\ frame' = [frame EXCEPT !.pc = "none"]
  /\ calls' = Append(calls, "count_pipeline_info")
  /\ store' = _read_all_file(store)
  /\ UNCHANGED <<req, pages, app, fetched, disk, stream, oracle, answer>>

\* POST /pipelines of another request, between the two calls of the query;
\* an insert that comes before a query is one that came during the last
ConcurrentInsert ==
  /\ frame.pc = "counting"
  /\ Len(store.lines) < MaxLines
  /\ \E body \in Bodies : store' = create_pipeline_store(store, body)
  /\ UNCHANGED <<req, resp, pages, calls, app, fetched, disk, stream, frame, oracle, answer>>

\* the answer of the query goes out
DeliverQuery ==
  /\ ~Idle
  /\ req' = NoReq
  /\ resp' = NoResp
  /\ calls' = <<>>
  /\ UNCHANGED <<store, pages, app, fetched, disk, stream, frame, oracle, answer>>

NextInterleaved == BeginQuery \/ FinishQuery \/ ConcurrentInsert \/ DeliverQuery

SpecInterleaved == InitInterleaved /\ [][NextInterleaved]_vars

(***************************************************************************)
(* The two backends side by side: the same records are inserted into the   *)
(* flat file and into the table, and the same repository call is made on   *)
(* both.  resp is what the flat-file repository gives, answer what the     *)
(* relational one gives; status 500 stands for an exception.               *)
(***************************************************************************)
RepositoryResult(op, result) ==
  Response(op, IF result.raised THEN 500 ELSE 200, result.value, 0, {})

InitRelational ==
  /\ store = NoFile
  /\ req = NoReq
  /\ resp = NoResp
  /\ pages = NoPages
  /\ calls = <<>>
  /\ app = import_main(DefaultEnviron)
  /\ fetched = None
  /\ disk = NoDisk
  /\ stream = NoStream
  /\ frame = NoFrame
  /\ oracle \in {[column_map |-> m, table |-> <<>>] : m \in ColumnMaps}
  /\ answer = NoResp

\* insert_pipeline_info of one validated record on both repositories
InsertBoth ==
  /\ Idle
  /\ Len(oracle.table) < MaxLines
  /\ \E body \in Bodies :
       /\ PipelineInfo(body).ok
       /\ req' = [NoReq EXCEPT !.op = "insert", !.body = body]
       /\ resp' = create_pipeline(body)
       /\ answer' = create_pipeline(body)
       /\ store' = repo_insert_pipeline_info(store, PipelineInfo(body).rec)
       /\ oracle' = oracle_insert_pipeline_info(oracle, PipelineInfo(body).rec)
  /\ calls' = <<"insert_pipeline_info">>
  /\ UNCHANGED <<pages, app, fetched, disk, stream, frame>>

\* get_pipeline_info on both, limit -1 standing for None
QueryBoth ==
  /\ Idle
  /\ \E F \in InterleavedFilters, limit \in {-1} \cup 1..MaxLimit, offset \in 0..MaxOffset :
       /\ req' = [NoReq EXCEPT !.op = "query", !.F = F, !.limit = limit,
                               !.offset = offset]
       /\ resp' = RepositoryResult("query", repo_get_pipeline_info(store, F, limit, offset))
       /\ \E result \in oracle_get_pipeline_info(oracle, F, limit, offset) :
            answer' = RepositoryResult("query", result)
  /\ calls' = <<"get_pipeline_info">>
  /\ UNCHANGED <<store, pages, app, fetched, disk, stream, frame, oracle>>

\* count_pipeline_info on both
CountBoth ==
  /\ Idle
  /\ \E F \in FilterInputs :
       /\ req' = [NoReq EXCEPT !.op = "count", !.F = F]
       /\ resp' = CountResult(repo_count_pipeline_info(store, F))
       /\ answer' = CountResult(oracle_count_pipeline_info(oracle, F))
  /\ calls' = <<"count_pipeline_info">>
  /\ UNCHANGED <<store, pages, app, fetched, disk, stream, frame, oracle>>

\* get_pipelines_summary on both
SummaryBoth ==
  /\ Idle
  /\ req' = [NoReq EXCEPT !.op = "summary"]
  /\ resp' = RepositoryResult("summary", get_pipelines_summary(store))
  /\ \E result \in oracle_get_pipelines_summary(oracle) :
       answer' = RepositoryResult("summary", result)
  /\ calls' = <<"get_pipelines_summary">>
  /\ UNCHANGED <<store, pages, app, fetched, disk, stream, frame, oracle>>

\* the two results are taken and compared
DeliverBoth ==
  /\ ~Idle
  /\ req' = NoReq
  /\ resp' = NoResp
  /\ answer' = NoResp
  /\ calls' = <<>>
  /\ UNCHANGED <<store, pages, app, fetched, disk, stream, frame, oracle>>

NextRelational == InsertBoth \/ QueryBoth \/ CountBoth \/ SummaryBoth \/ DeliverBoth

SpecRelational == InitRelational /\ [][NextRelational]_vars

(***************************************************************************)
(* Properties                                                              *)
(***************************************************************************)
\* the records a read of the file yields, and those among them a filter asks for
StoredRecords == _read_all(store).data
Occurrences(list, x) == Cardinality({i \in 1..Len(list) : list[i] = x})
Range(list) == {list[i] : i \in 1..Len(list)}
Returned(op) == resp.op = op /\ resp.status = 200
StringCriteria == {"pipeline_name", "script_name", "pipeline_type", "environment"}

\* the criteria of C1 read with "present" as "supplied": every criterion
\* that is not None has to hold
SatisfiesSupplied(rec, F) ==
  /\ (F.start_utc # None => rec.start_utc.n >= F.start_utc.n)
  /\ (F.end_utc # None => rec.end_utc.n <= F.end_utc.n)
  /\ (F.min_rowcount # None => rec.rowcount.n >= F.min_rowcount.n)
  /\ (F.max_rowcount # None => rec.rowcount.n <= F.max_rowcount.n)
  /\ \A c \in StringCriteria : F[c] # None => rec[c] = F[c]

\* the same with an empty string criterion counted as absent
SatisfiesNonEmpty(rec, F) ==
  /\ (F.start_utc # None => rec.start_utc.n >= F.start_utc.n)
  /\ (F.end_utc # None => rec.end_utc.n <= F.end_utc.n)
  /\ (F.min_rowcount # None => rec.rowcount.n >= F.min_rowcount.n)
  /\ (F.max_rowcount # None => rec.rowcount.n <= F.max_rowcount.n)
  /\ \A c \in StringCriteria : (F[c] # None /\ F[c] # JStr(<<>>)) => rec[c] = F[c]

\* C1 as stated: query and count select exactly the stored valid records
\* that satisfy every supplied criterion (bounds inclusive, strings equal).
\* Every returned record satisfies them, the total counts exactly the stored
\* records that do, and an all_data query returns each of them as often as
\* it is stored.
C1_SelectsSupplied ==
  /\ Returned("query") =>
       /\ \A r \in Range(resp.results) : SatisfiesSupplied(r, req.F)
       /\ resp.total = Cardinality({i \in 1..Len(StoredRecords) :
                                      SatisfiesSupplied(StoredRecords[i], req.F)})
       /\ req.all_data =>
            \A r \in Range(StoredRecords) :
              Occurrences(resp.results, r) =
                IF SatisfiesSupplied(r, req.F) THEN Occurrences(StoredRecords, r) ELSE 0
  /\ Returned("count") =>
       resp.total = Cardinality({i \in 1..Len(StoredRecords) :
                                   SatisfiesSupplied(StoredRecords[i], req.F)})

\* C1 amended: the same, with a string criterion taking part only when it is
\* supplied and not the empty string.
C1_SelectsNonEmpty ==
  /\ Returned("query") =>
       /\ \A r \in Range(resp.results) : SatisfiesNonEmpty(r, req.F)
       /\ resp.total = Cardinality({i \in 1..Len(StoredRecords) :
                                      SatisfiesNonEmpty(StoredRecords[i], req.F)})
       /\ req.all_data =>
            \A r \in Range(StoredRecords) :
              Occurrences(resp.results, r) =
                IF SatisfiesNonEmpty(r, req.F) THEN Occurrences(StoredRecords, r) ELSE 0
  /\ Returned("count") =>
       resp.total = Cardinality({i \in 1..Len(StoredRecords) :
                                   SatisfiesNonEmpty(StoredRecords[i], req.F)})

\* an all_data query with a time bound and a string criterion that returns
\* some of the stored records and leaves some out, one of those returned
\* sitting exactly on the bound
C1_Witness ==
  /\ Returned("query") /\ req.all_data
  /\ req.F.start_utc # None /\ Truthy(req.F.environment)
  /\ resp.results # <<>>
  /\ Len(resp.results) < Len(StoredRecords)
  /\ \E r \in Range(resp.results) : r.start_utc.n = req.F.start_utc.n

\* C2: every result sequence the query returns is ordered newest first: of
\* two adjacent records the earlier has the later or equal start_utc.
C2_NewestFirst ==
  Returned("query") =>
    \A i \in 1..(Len(resp.results) - 1) :
      resp.results[i].start_utc.n >= resp.results[i + 1].start_utc.n

\* a response whose first two records are stored in the opposite order
C2_Witness ==
  /\ Returned("query") /\ Len(resp.results) >= 2
  /\ resp.results[1].start_utc.n > resp.results[2].start_utc.n
  /\ \E i, j \in 1..Len(StoredRecords) :
       i < j /\ StoredRecords[i] = resp.results[2] /\ StoredRecords[j] = resp.results[1]

\* the size N of the matching set of the request
MatchingSize == Len(_apply_filters(StoredRecords, req.F))

\* C3: a query with limit L >= 1 and offset O >= 0 over a matching set of
\* size N returns min(L, max(0, N - O)) records; an offset at or beyond N
\* gives an empty page.
C3_PageSize ==
  (Returned("query") /\ ~req.all_data) =>
    Len(resp.results) = Min(req.limit, Max(0, MatchingSize - req.offset))

\* a last page that is not full, past the first
C3_Witness ==
  /\ Returned("query") /\ ~req.all_data
  /\ req.offset > 0
  /\ MatchingSize > req.offset
  /\ MatchingSize < req.offset + req.limit
\* the all_data result for the filter the client is paging with
AllData(F) == get_pipeline_info(store, F, 1, 0, TRUE).results

\* C4: with the store unchanged, the pages for offsets 0, L, 2L, ... put
\* together in order are the all_data result for the same filter: after the
\* pages up to offset k the client holds its first k records, each in its
\* place, and the whole of it once k reaches its length.
C4_PagesConcatenate ==
  pages.active =>
    pages.acc = SubSeq(AllData(pages.F), 1, Min(pages.next, Len(AllData(pages.F))))

\* three pages of one record each that make up the whole result, two of the
\* records sharing their start_utc
C4_Witness ==
  /\ pages.active /\ pages.limit = 1 /\ pages.next = 3
  /\ pages.acc = AllData(pages.F)
  /\ Len(pages.acc) = 3
  /\ \E i \in 1..2 : /\ pages.acc[i].start_utc = pages.acc[i + 1].start_utc
                     /\ pages.acc[i] # pages.acc[i + 1]

\* C5: count(F) is the number of records query(F) returns with limit absent
\* and offset 0.
C5_CountIsQueryLength ==
  Returned("count") =>
    /\ ~repo_get_pipeline_info(store, req.F, -1, 0).raised
    /\ resp.total = Len(repo_get_pipeline_info(store, req.F, -1, 0).value)

\* a count that takes some of the stored records and not all
C5_Witness ==
  /\ Returned("count")
  /\ resp.total >= 1
  /\ resp.total < Len(StoredRecords)

\* C6: in a query response total is the number of stored records matching
\* the filter, whatever limit, offset and all_data are, and count is the
\* number of records in the results.
C6_TotalIgnoresPage ==
  Returned("query") =>
    /\ resp.total = Cardinality({i \in 1..Len(StoredRecords) :
                                   Matches(StoredRecords[i], req.F)})
    /\ resp.count = Len(resp.results)

\* a page past the first that holds fewer records than match
C6_Witness ==
  /\ Returned("query") /\ ~req.all_data /\ req.offset > 0
  /\ resp.count >= 1
  /\ resp.total > resp.count

\* C7: a valid record inserted into an empty store and read back is the one
\* record of the store, equal field for field (a timestamp being the instant
\* it names).
C7_RoundTrip ==
  (resp.op = "insert" /\ resp.status = 201 /\ Len(store.lines) = 1) =>
    /\ ~_read_all(store).raised
    /\ _read_all(store).data = resp.results

\* the record of a body without the classification keys, whose line spells
\* the timestamp otherwise than the body did
C7_Witness ==
  /\ resp.op = "insert" /\ resp.status = 201 /\ Len(store.lines) = 1
  /\ "pipeline_name" \notin DOMAIN req.body
  /\ store.lines[1].val.start_utc # req.body.start_utc
  /\ resp.results[1].pipeline_name = None

\* C8: a record submitted with archived_file = P is found by its date_code
\* with archived_file = P.
C8_ArchivedFileKept ==
  (resp.op = "insert" /\ resp.status = 201 /\ "archived_file" \in DOMAIN req.body) =>
    /\ get_pipeline_info_by_date_code(store, resp.results[1].date_code).found
    /\ "archived_file" \in
         DOMAIN get_pipeline_info_by_date_code(store, resp.results[1].date_code).rec
    /\ get_pipeline_info_by_date_code(store, resp.results[1].date_code).rec["archived_file"]
         = req.body["archived_file"]

\* the lines the claim calls well-formed: JSON objects that hold the
\* required fields with values of their types
WellFormed(line) ==
  /\ line.kind = "object"
  /\ \A f \in Fields \ {"pipeline_name"} : FieldValid(line.val, f)
  /\ "pipeline_name" \in DOMAIN line.val => FieldValid(line.val, "pipeline_name")

\* C9: a full read never raises, whatever the file holds, and yields the
\* records of the well-formed lines in file order, one for each.
C9_ReadNeverRaises ==
  resp.op \in {"query", "count"} =>
    /\ resp.status # 500
    /\ ~_read_all(store).raised
    /\ Len(_read_all(store).data) = Len(SelectSeq(store.lines, WellFormed))

\* C10: the store is append-only: a step leaves the lines the file held in
\* place, and an insert that is accepted adds one line after them, also when
\* a line with the same date_code is there.
C10_AppendOnly ==
  [][/\ Len(store'.lines) >= Len(store.lines)
     /\ SubSeq(store'.lines, 1, Len(store.lines)) = store.lines
     /\ (resp'.op = "insert" /\ resp'.status = 201)
          => Len(store'.lines) = Len(store.lines) + 1]_vars

\* a second record with the date_code of one already stored was inserted
C10_Witness ==
  /\ resp.op = "insert" /\ resp.status = 201
  /\ Len(store.lines) >= 2
  /\ \E i \in 1..(Len(store.lines) - 1) :
       /\ store.lines[i].kind = "object"
       /\ store.lines[i].val.date_code = store.lines[Len(store.lines)].val.date_code

\* the places in the store of the valid records with the date_code asked for
Hits == {i \in 1..Len(StoredRecords) : StoredRecords[i].date_code = req.date_code}

\* C11: a lookup by date_code returns the earliest stored valid record with
\* that date_code, and finds nothing exactly when no valid stored record
\* has it.
C11_FirstMatchWins ==
  (resp.op = "lookup" /\ resp.status # 500) =>
    /\ (resp.status = 404) <=> (Hits = {})
    /\ (resp.status = 200) <=>
         (Hits # {} /\ resp.results =
                         <<StoredRecords[CHOOSE i \in Hits : \A j \in Hits : i <= j]>>)

\* a lookup that had two different records with the date_code to choose from
C11_Witness ==
  /\ resp.op = "lookup" /\ resp.status = 200
  /\ \E i, j \in Hits : i < j /\ StoredRecords[i] # StoredRecords[j]
                        /\ resp.results[1] = StoredRecords[i]

\* the sum of values[i] over the places i of a set
RECURSIVE SumAt(_, _)
SumAt(values, places) ==
  IF places = {} THEN 0
  ELSE values[CHOOSE i \in places : TRUE]
         + SumAt(values, places \ {CHOOSE i \in places : TRUE})

\* the places in the store of the records of a summary entry's group
Members(entry) ==
  {i \in 1..Len(StoredRecords) :
     GroupKey(StoredRecords[i]) = <<entry.pipeline_name, entry.script_name,
                                    entry.pipeline_type, entry.environment>>}

\* avg is the mean of values over the places of the group where the value
\* is above zero, None when there is none
IsMeanOfPositive(avg, values, members) ==
  IF {i \in members : values[i] > 0} = {} THEN avg = None
  ELSE /\ avg # None
       /\ avg.n * Cardinality({i \in members : values[i] > 0})
            = avg.d * SumAt(values, {i \in members : values[i] > 0})

C13_LimitValidated ==
  resp.op = "query" =>
    /\ (req.limit \in 1..10000 /\ req.offset >= 0) =>
         (resp.status # 422 /\ calls # <<>>)
    /\ (req.limit > 10000 \/ req.limit < 1) =>
         (resp.status = 422 /\ calls = <<>> /\ resp.results = <<>>)

\* limit one above the maximum, rejected although the store holds a record
\* the query would have returned
C13_Witness ==
  /\ resp.op = "query" /\ req.limit = 10001 /\ req.offset = 0
  /\ resp.status = 422
  /\ StoredRecords # <<>>

\* the archived_file path of the record the handler was given, <<>> when
\* there is no record or the record has none
StoredPath ==
  IF fetched = None \/ "archived_file" \notin DOMAIN fetched THEN <<>>
  ELSE fetched.archived_file.s

\* the three not-found conditions: no record, a record without
\* archived_file (absent, null or empty), an absolute path without ".."
\* at which there is no file
NotFoundCondition ==
  \/ fetched = None
  \/ StoredPath = <<>>
  \/ (~disk.is_file /\ is_absolute(StoredPath) /\ ~Contains(StoredPath, <<"..">>))

\* C14: the three not-found conditions of the lookup-and-stream operation
\* all give the not-found outcome, with the response a request for an
\* unknown date_code gets.
C14_NotFoundAlike ==
  (resp.op = "archive" /\ NotFoundCondition) =>
    /\ resp.status = 404
    /\ resp = get_archived_file(None, disk, app.MAX_FILE_SIZE_BYTES)

\* C15: a record whose archived_file is a relative path or holds ".." is
\* answered forbidden, whether a file is at the path or not.
C15_RelativeForbidden ==
  (resp.op = "archive" /\ StoredPath # <<>>
     /\ (~is_absolute(StoredPath) \/ Contains(StoredPath, <<"..">>))) =>
    resp.status = 403

\* C16: the display filename is the last component of the stored path, with
\* an ending ".gz.tmp" reduced to ".gz", any other ending ".tmp" removed,
\* and every other name unchanged.
C16_DisplayFilename ==
  (resp.op = "archive" /\ resp.status = 200) =>
    /\ EndsWith(PathName(StoredPath), <<".gz", ".tmp">>) =>
         resp.filename = SubSeq(PathName(StoredPath), 1, Len(PathName(StoredPath)) - 2)
                           \o <<".gz">>
    /\ (EndsWith(PathName(StoredPath), <<".tmp">>)
          /\ ~EndsWith(PathName(StoredPath), <<".gz", ".tmp">>)) =>
         resp.filename = SubSeq(PathName(StoredPath), 1, Len(PathName(StoredPath)) - 1)
    /\ ~EndsWith(PathName(StoredPath), <<".tmp">>) =>
         resp.filename = PathName(StoredPath)

\* foo.subconLot.gz.tmp served as foo.subconLot.gz
C16_Witness ==
  /\ resp.op = "archive" /\ resp.status = 200
  /\ PathName(StoredPath) = <<"foo", ".subconLot", ".gz", ".tmp">>
  /\ resp.filename = <<"foo", ".subconLot", ".gz">>

\* C17: once the stream has ended, by the last chunk, by the consumer
\* stopping early or by a failing read, the file handle opened for it is
\* released; the handle is open only while the generator is inside the
\* async with block.
C17_HandleReleased ==
  /\ stream.pc \in {"done", "failed", "closed"} => stream.handle # "open"
  /\ stream.handle = "open" => stream.pc \in {"reading", "suspended", "abandoned"}

\* a consumer that stopped after the first chunk of a longer file, the
\* generator closed and the handle released
C17_Witness ==
  /\ stream.pc = "closed" /\ stream.handle = "released"
  /\ Len(stream.chunks) = 1
  /\ stream.position < disk.size

\* C18: in a stream that ran to completion every chunk has 1 to 65536
\* bytes, all bytes of the file were delivered, and the length announced in
\* the header is the number of bytes delivered.
C18_ChunksAddUp ==
  stream.pc = "done" =>
    /\ \A k \in 1..Len(stream.chunks) : stream.chunks[k] >= 1 /\ stream.chunks[k] <= 65536
    /\ stream.position = disk.size
    /\ Sum(stream.chunks) = resp.length

\* a file one byte longer than a chunk, delivered as a full chunk and a
\* chunk of one byte
C18_Witness ==
  /\ stream.pc = "done"
  /\ stream.chunks = <<65536, 1>>
  /\ resp.length = 65537

\* C19: the stream is an attachment whenever the file is larger than the
\* configured threshold; at or below the threshold it is inline exactly when
\* the MIME type starts with text/, image/, application/json or
\* application/xml, and an attachment otherwise.
C19_DispositionPolicy ==
  (resp.op = "archive" /\ resp.status = 200) =>
    /\ resp.length > app.MAX_FILE_SIZE_BYTES => resp.disposition = "attachment"
    /\ resp.length <= app.MAX_FILE_SIZE_BYTES =>
         /\ (resp.disposition = "inline") <=>
              (\/ resp.media_type[1] \in {"text/", "image/"}
               \/ (Len(resp.media_type) >= 2 /\ resp.media_type[1] = "application/"
                     /\ resp.media_type[2] \in {"json", "xml"}))
         /\ resp.disposition \in {"inline", "attachment"}

\* a text file of exactly the threshold size, offered inline
C19_Witness ==
  /\ resp.op = "archive" /\ resp.status = 200
  /\ app.MAX_FILE_SIZE_BYTES > 0
  /\ resp.length = app.MAX_FILE_SIZE_BYTES
  /\ resp.media_type = <<"text/", "plain">>
  /\ resp.disposition = "inline"

\* what the environment asks for and what it allows
OracleAsked == app.environ.PIPELINE_BACKEND \in {JStr(<<"oracle">>), JStr(<<"ORACLE">>)}
OracleUsable ==
  /\ \A p \in {"ORACLE_DSN", "ORACLE_USER", "ORACLE_PASSWORD"} :
       app.environ[p] \notin {None, JStr(<<>>)}
  /\ app.environ.oracledb

\* C20: one backend is selected at startup from the flag, the flat-file
\* backend unless the flag says oracle; when the selected backend cannot be
\* constructed the startup fails, and no request is ever served, neither by
\* the failed backend nor by the other one.
C20_OneBackendOrNone ==
  /\ app.phase = "serving" =>
       app.REPO = IF OracleAsked THEN "oracle" ELSE "jsonl"
  /\ (app.phase # "importing" /\ OracleAsked /\ ~OracleUsable) =>
       (app.phase = "failed" /\ app.REPO = "none")
  /\ resp.op # "none" => (app.phase = "serving" /\ app.REPO # "none")
  /\ (app.phase # "importing" /\ ~OracleAsked) => app.phase = "serving"

\* oracle selected with its three parameters set and no driver installed:
\* the startup failed
C20_Witness ==
  /\ app.phase = "failed"
  /\ app.environ.PIPELINE_BACKEND = JStr(<<"ORACLE">>)
  /\ \A p \in {"ORACLE_DSN", "ORACLE_USER", "ORACLE_PASSWORD"} : app.environ[p] = JStr(<<"x">>)
  /\ ~app.environ.oracledb

\* C22: a query against a flat-file store that does not exist is answered
\* not-found (404), neither with an empty result nor with an internal error.
C22_MissingStoreNotFound ==
  (resp.op = "query" /\ resp.status # 422 /\ ~store.exists) => resp.status = 404

\* C23: a record that is stored by an insert has rowcount >= 0 and
\* start_utc <= end_utc; a submitted record that violates either is not
\* stored.
C23_StoredRecordsSound ==
  (resp.op = "insert" /\ resp.status = 201) =>
    /\ resp.results[1].rowcount.n >= 0
    /\ resp.results[1].start_utc.n <= resp.results[1].end_utc.n
    /\ \A i \in 1..Len(StoredRecords) :
         StoredRecords[i] = resp.results[1] =>
           (StoredRecords[i].rowcount.n >= 0
              /\ StoredRecords[i].start_utc.n <= StoredRecords[i].end_utc.n)

\* the stored text of a line that _read_all skips
IsSkipped(line) == ParseLine(line) = Skipped

\* C27: query, count, summary and lookup by date_code leave the flat file as
\* it was, line for line, whether they succeed, find nothing or skip
\* malformed lines; the store changes only in a step that is an accepted
\* insert.
C27_ReadsLeaveStore ==
  [][store' # store => (resp'.op = "insert" /\ resp'.status = 201)]_vars

\* a query has returned records from a store that holds a line _read_all
\* skips, and the line is still there
C27_Witness ==
  /\ Returned("query") /\ resp.results # <<>>
  /\ store.exists
  /\ \E i \in 1..Len(store.lines) : IsSkipped(store.lines[i])

\* a filter with every empty-string criterion taken out
WithoutEmpty(F) == [c \in Criteria |-> IF F[c] = JStr(<<>>) THEN None ELSE F[c]]

\* C28: in flat-file query and count a string criterion supplied as the
\* empty string counts as absent: the answer is the answer of the same call
\* without that criterion.
C28_EmptyIsAbsent ==
  /\ resp.op = "query" =>
       resp = get_pipeline_info(store, WithoutEmpty(req.F), req.limit, req.offset,
                                req.all_data)
  /\ resp.op = "count" =>
       resp = CountResult(repo_count_pipeline_info(store, WithoutEmpty(req.F)))

\* a query with pipeline_name = "" has returned a record whose pipeline_name
\* is not empty, and a count with an empty criterion has counted one
C28_Witness ==
  \/ /\ Returned("query") /\ req.F.pipeline_name = JStr(<<>>)
     /\ \E r \in Range(resp.results) : Truthy(r.pipeline_name)
  \/ /\ Returned("count") /\ req.F.environment = JStr(<<>>)
     /\ resp.total > 0

\* C26: whatever inserts run alongside a paginated query, its answer has
\* total >= count: the page is read before the count is taken and the file
\* only grows.
C26_TotalCoversCount ==
  (resp.op = "query" /\ resp.status = 200) => resp.total >= resp.count

\* a query has answered with a total larger than the number of matching
\* records its own page read saw: an insert of a matching record fell
\* between its two calls
C26_Witness ==
  /\ resp.op = "query" /\ resp.status = 200
  /\ req.offset = 0 /\ resp.count < req.limit
  /\ resp.count > 0
  /\ resp.total > resp.count

\* the rows of the table and the records of the file, one for one
SameDataset ==
  /\ Len(oracle.table) = Len(StoredRecords)
  /\ \A i \in 1..Len(StoredRecords) :
       oracle.table[i] = InsertedRow(oracle.column_map, StoredRecords[i])

\* C21: on the same dataset the WHERE clause of the relational backend and
\* the predicate of the flat-file backend agree, record by record and for
\* every filter: the clause can be evaluated, a row satisfies it exactly
\* when its record passes the flat-file test, and the two counts are equal.
C21_SamePredicate ==
  (resp.op = "count" /\ SameDataset) =>
    /\ Named(_build_where(oracle.column_map, req.F)) \subseteq Columns(oracle.column_map)
    /\ \A i \in 1..Len(StoredRecords) :
         Satisfies(oracle.table[i], _build_where(oracle.column_map, req.F))
           <=> Matches(StoredRecords[i], req.F)
    /\ answer = resp

\* no two stored records have the same start_utc
DistinctStarts ==
  \A i, j \in 1..Len(StoredRecords) :
    i # j => StoredRecords[i].start_utc.n # StoredRecords[j].start_utc.n

\* C24: on the same dataset with pairwise distinct start_utc, the
\* relational query gives the record sequence the flat-file query gives,
\* for the same filter, limit and offset, the limit absent included.
C24_SamePage ==
  (resp.op = "query" /\ SameDataset /\ DistinctStarts) => answer = resp

\* C25: on the same dataset the relational summary and the flat-file
\* summary hold the same groups with the same total_runs, last_run,
\* avg_duration and avg_rowcount.
C25_SameSummary ==
  (resp.op = "summary" /\ SameDataset) =>
    /\ answer.status = resp.status
    /\ Range(answer.results) = Range(resp.results)

====
